---------------------------- MODULE Spec2Model ----------------------------
(***************************************************************************)
(* A model of strephit/commons/date_normalizer.py: the DateNormalizer      *)
(* (construction, normalize_one, normalize_many, _process_match) and the   *)
(* token realignment normalize_numerical_fes; and of map_url_to_wid of     *)
(* strephit/commons/serialize.py.                                          *)
(*                                                                         *)
(* Text is a sequence of one-character strings.  Offsets are Python's:     *)
(* 0-based, a span (start, end) covers text[start:end].                    *)
(***************************************************************************)
EXTENDS Integers, Sequences, FiniteSets, TLC

(***************************************************************************)
(* Bounds of the model.                                                    *)
(***************************************************************************)
MaxLen == 3
MaxTokens == 3
MaxInstances == 4
MaxRows == 3

(***************************************************************************)
(* Strings.                                                                *)
(***************************************************************************)
Chars == {"1", "a", "A", " "}

None == "None"

\* str.lower() on one character, and on a string (length-preserving).
LowerChar(c) == IF c = "A" THEN "a" ELSE c

Lower(s) == [k \in 1..Len(s) |-> LowerChar(s[k])]

\* Python's s[a:b] for 0 <= a, with b clipped to the length.
Slice(s, a, b) ==
    LET hi == IF b > Len(s) THEN Len(s) ELSE b
    IN  IF a >= hi THEN <<>> ELSE SubSeq(s, a + 1, hi)

Max(a, b) == IF a >= b THEN a ELSE b

\* All texts over Chars of length at most n.
RECURSIVE TextsUpTo(_)
TextsUpTo(n) ==
    IF n = 0 THEN {<<>>}
    ELSE LET shorter == TextsUpTo(n - 1)
         IN  shorter \cup {Append(t, c) : t \in {u \in shorter : Len(u) = n - 1}, c \in Chars}

(***************************************************************************)
(* The rule specification and its compilation (DateNormalizer.__init__).   *)
(* A pattern template is a string; compilation replaces each space by      *)
(* \s* and compiles with re.IGNORECASE.  A compiled pattern is a sequence  *)
(* of items: a literal character, or WS for \s*.                           *)
(***************************************************************************)
WS == "\\s*"

\* pattern.replace(' ', '\\s*'), compiled with re.IGNORECASE (the literals
\* are kept in lower case and compared with lower-cased text).
Compile(pattern) ==
    [k \in 1..Len(pattern) |-> IF pattern[k] = " " THEN WS ELSE LowerChar(pattern[k])]

\* The pattern templates the rule documents of the model draw from.
Templates == { <<"1">>, <<"1", " ", "1">>, <<"A">> }

\* The rule documents: category Time with two rules, category Duration with
\* one, each rule a single-key mapping pattern -> transform; the three
\* patterns of a document differ.
SpecsDocs ==
    { << [category |-> "Time",
          rules |-> << [pattern |-> p[1], transform |-> "year"],
                       [pattern |-> p[2], transform |-> "date"] >>],
         [category |-> "Duration",
          rules |-> << [pattern |-> p[3], transform |-> "span"] >>] >>
      : p \in { q \in Templates \X Templates \X Templates :
                    q[1] # q[2] /\ q[1] # q[3] /\ q[2] # q[3] } }

\* The iteration orders a dict with n keys can have (self.regexes.iteritems()).
IterOrders(n) == { o \in [1..n -> 1..n] : \A a, b \in 1..n : a # b => o[a] # o[b] }

\* The compiled rules of one category, in the order of its rule list.
CompileCategory(c) ==
    [k \in 1..Len(c.rules) |->
        [category |-> c.category,
         regex |-> Compile(c.rules[k].pattern),
         transform |-> c.rules[k].transform]]

RECURSIVE Flatten(_, _, _)
Flatten(specs, order, k) ==
    IF k > Len(order) THEN <<>>
    ELSE CompileCategory(specs[order[k]]) \o Flatten(specs, order, k + 1)

\* The (category, regex, transform) triples in the order the two nested
\* loops over self.regexes visit them, for a dict iterating in `order`.
ScanList(specs, order) == Flatten(specs, order, 1)

(***************************************************************************)
(* Regular expression matching (re.search, re.finditer) for the compiled   *)
(* patterns above.                                                         *)
(***************************************************************************)
RECURSIVE SkipSpaces(_, _)
SkipSpaces(text, p) ==
    IF p < Len(text) /\ text[p + 1] = " " THEN SkipSpaces(text, p + 1) ELSE p

\* The end offset of the match of regex items k.. at offset p, or -1.
RECURSIVE MatchEnd(_, _, _, _)
MatchEnd(regex, text, p, k) ==
    IF k > Len(regex) THEN p
    ELSE IF regex[k] = WS THEN MatchEnd(regex, text, SkipSpaces(text, p), k + 1)
    ELSE IF p < Len(text) /\ text[p + 1] = regex[k] THEN MatchEnd(regex, text, p + 1, k + 1)
    ELSE -1

\* regex.search(text) scanning from offset `from`: the leftmost match's span,
\* or <<-1, -1>> when there is none.
RECURSIVE SearchFrom(_, _, _)
SearchFrom(regex, text, from) ==
    IF from > Len(text) THEN <<-1, -1>>
    ELSE LET e == MatchEnd(regex, text, from, 1)
         IN  IF e >= 0 THEN <<from, e>> ELSE SearchFrom(regex, text, from + 1)

Search(regex, text) == SearchFrom(regex, text, 0)

\* eval(transform, self.globals, {'match': match}): the value of a transform
\* is a function of the transform expression and the matched text.
EvalTransform(transform, text, span) == <<transform, Slice(text, span[1], span[2])>>

\* A variant of ProcessMatchSpan that forgets the offset of the suffix.
ProcessMatchSpanRelative(span, first_position) == <<span[1], span[2]>>

\* start, end = match.span(); (first_position + start, first_position + end)
ProcessMatchSpan(span, first_position) == <<first_position + span[1], first_position + span[2]>>

\* DateNormalizer._process_match
ProcessMatch(rule, text, span, first_position) ==
    [span |-> ProcessMatchSpan(span, first_position),
     category |-> rule.category,
     result |-> EvalTransform(rule.transform, text, span)]


(***************************************************************************)
(* State.                                                                  *)
(***************************************************************************)
VARIABLES
    specs,          \* the rule document the normalizer was built from
    order,          \* the iteration order of the dict self.regexes
    builtins,       \* the entry 'meta_vars' of the interpreter's builtins, <<>> if unset
    instances,      \* the DateNormalizer objects constructed in this process
    c_seen,         \* history: what the last meta function called saw as meta_vars
                    \* (instance 0: the last construction raised KeyError)
    o_expression,   \* normalize_one: the argument `expression`
    o_conflict,     \* normalize_one: the argument `conflict`
    o_k,            \* normalize_one: number of rules the loops have visited
    o_best,         \* normalize_one: best_match, <<>> for None
    o_ret,          \* normalize_one: the returned tuple, <<>> before return
    o_pc,           \* normalize_one: "loop", "done" or "off"
    m_text,         \* normalize_many: the argument `expression`
    m_position,     \* normalize_many: position
    m_k,            \* normalize_many: index of the current rule in scan order
    m_end,          \* normalize_many: end
    m_it,           \* normalize_many: where finditer resumes in the suffix
    m_pc,           \* normalize_many: "run", "done" or "off"
    m_pending,      \* normalize_many: the value yielded and not yet consumed
    m_yields,       \* history: every value yielded, with the cursor at the yield
    f_sid,          \* normalize_numerical_fes: the argument sentence_id
    f_input,        \* normalize_numerical_fes: the argument `tokens`
    f_tokens,       \* normalize_numerical_fes: the local `tokens`
    f_sentence,     \* normalize_numerical_fes: sentence
    f_pc,           \* "loop", "done" (returned), "error" (AssertionError) or "off"
    f_run,          \* 1 for a call on the input, 2 for the call on its result
    f_last,         \* history: how the last match of the loop was handled
    u_rows,         \* map_url_to_wid: the lines the argument `semistructured` yields
    u_n,            \* map_url_to_wid: number of rows the loop has processed
    url_to_wid,     \* map_url_to_wid: the dict, a set of <<url, wid>> items
    banned_urls,    \* map_url_to_wid: banned_urls
    u_pc            \* map_url_to_wid: "loop", "done" or "off"

normVars == <<specs, order, builtins, instances, c_seen>>
oneVars == <<o_expression, o_conflict, o_k, o_best, o_ret, o_pc>>
manyVars == <<m_text, m_position, m_k, m_end, m_it, m_pc, m_pending, m_yields>>
fesVars == <<f_sid, f_input, f_tokens, f_sentence, f_pc, f_run, f_last>>
urlVars == <<u_rows, u_n, url_to_wid, banned_urls, u_pc>>

\* self.regexes, as the loops `for category, regexes in self.regexes.iteritems():
\* for regex, transform in regexes` visit it.
Regexes == ScanList(specs, order)

(***************************************************************************)
(* DateNormalizer.__init__ and _meta_init                                  *)
(***************************************************************************)
\* The languages with a rule document, the last one with no meta function.
Languages == {"en", "it", "de", "xx"}

\* specs['__meta_vars__'] of a language
MetaVarsOf(language) ==
    CASE language = "en" -> [month |-> "january"]
      [] language = "it" -> [month |-> "gennaio"]
      [] language = "de" -> [month |-> "januar"]
      [] OTHER -> [month |-> "m"]

\* the names specs['__meta_funcs__'] of a language defines
MetaFuncsOf(language) == IF language = "xx" THEN {} ELSE {"month_number"}

\* The keys of self.meta_funcs after the loop `exec f in self.meta_funcs`:
\* the names defined, and '__builtins__', which exec binds to the dict of
\* the builtins of the interpreter.
ExecAll(funcs) == IF funcs = {} THEN {} ELSE funcs \cup {"__builtins__"}

\* self.globals = self.meta_funcs; self.globals.update(self.meta_vars)
GlobalsOf(language) == ExecAll(MetaFuncsOf(language)) \cup DOMAIN MetaVarsOf(language)

\* _meta_init(specs) of an instance for a language with meta functions:
\* self.meta_funcs['__builtins__']['meta_vars'] = self.meta_vars
Construct(language) ==
    /\ Len(instances) < MaxInstances
    /\ "__builtins__" \in ExecAll(MetaFuncsOf(language))
    /\ builtins' = <<MetaVarsOf(language)>>
    /\ instances' = Append(instances, [language |-> language,
                                       meta_vars |-> MetaVarsOf(language),
                                       globals |-> GlobalsOf(language)])
    /\ UNCHANGED <<specs, order, c_seen>>

\* with no meta function nothing was executed in self.meta_funcs, and
\* self.meta_funcs['__builtins__'] raises KeyError: no instance is made
ConstructFails(language) ==
    /\ Len(instances) < MaxInstances
    /\ "__builtins__" \notin ExecAll(MetaFuncsOf(language))
    /\ c_seen' = <<[inst |-> 0, meta_vars |-> <<>>]>>
    /\ UNCHANGED <<specs, order, builtins, instances>>

\* The value the name meta_vars has in a meta function or a transform of
\* instance k: its globals are self.globals, then the builtins.
VisibleMetaVars(k) ==
    IF "meta_vars" \in instances[k].globals
    THEN <<instances[k].meta_vars.meta_vars>>
    ELSE builtins

\* a transform of instance k is evaluated and calls a meta function that
\* reads meta_vars
CallMetaFunc(k) ==
    /\ c_seen' = <<[inst |-> k, meta_vars |-> VisibleMetaVars(k)]>>
    /\ UNCHANGED <<specs, order, builtins, instances>>

\* An instance after __init__: a rule document, and some iteration order of
\* the dict of its categories.
InitNormalizer ==
    /\ specs \in SpecsDocs
    /\ order \in IterOrders(2)
    /\ builtins = <<MetaVarsOf("en")>>
    /\ instances = <<[language |-> "en", meta_vars |-> MetaVarsOf("en"),
                      globals |-> GlobalsOf("en")]>>
    /\ c_seen = <<>>

OneOff ==
    /\ o_expression = <<>> /\ o_conflict = "first" /\ o_k = 0
    /\ o_best = <<>> /\ o_ret = <<>> /\ o_pc = "off"

ManyOff ==
    /\ m_text = <<>> /\ m_position = 0 /\ m_k = 1 /\ m_end = 0 /\ m_it = 0
    /\ m_pc = "off" /\ m_pending = <<>> /\ m_yields = <<>>

NoLast == [kind |-> "none", before |-> <<>>, span |-> <<-1, -1>>, i |-> 0, j |-> 0]

UrlOff ==
    /\ u_rows = <<>> /\ u_n = 0 /\ url_to_wid = {} /\ banned_urls = {} /\ u_pc = "off"

FesOff ==
    /\ f_sid = "s1" /\ f_input = <<>> /\ f_tokens = <<>> /\ f_sentence = <<>>
    /\ f_pc = "off" /\ f_run = 1 /\ f_last = NoLast

(***************************************************************************)
(* DateNormalizer.normalize_one                                            *)
(***************************************************************************)
Conflicts == {"first", "longest", "shortest"}

NoMatch == [span |-> <<-1, -1>>, category |-> None, result |-> <<>>]

\* expression = expression.lower()
OneText == Lower(o_expression)

OneRule == Regexes[o_k + 1]

\* match = regex.search(expression)
OneMatch == Search(OneRule.regex, OneText)

SpanLen(span) == span[2] - span[1]

\* A variant of ReplacesBest in which a candidate of equal length replaces.
ReplacesBestOnTie(conflict, best, span) ==
    IF best = <<>> THEN TRUE
    ELSE \/ conflict = "longest" /\ SpanLen(span) >= best[1].length
         \/ conflict = "shortest" /\ SpanLen(span) <= best[1].length

\* The condition of the last elif of the loop body (lines 88-90).
ReplacesBest(conflict, best, span) ==
    IF best = <<>> THEN TRUE
    ELSE \/ conflict = "longest" /\ SpanLen(span) > best[1].length
         \/ conflict = "shortest" /\ SpanLen(span) < best[1].length

\* if not match: continue
OneNoMatch ==
    /\ o_pc = "loop" /\ o_k < Len(Regexes)
    /\ OneMatch = <<-1, -1>>
    /\ o_k' = o_k + 1
    /\ UNCHANGED <<o_expression, o_conflict, o_best, o_ret, o_pc>>
    /\ UNCHANGED <<normVars, manyVars, fesVars, urlVars>>

\* elif conflict == 'first': return self._process_match(category, transform, match, 0)
OneFirst ==
    /\ o_pc = "loop" /\ o_k < Len(Regexes)
    /\ OneMatch # <<-1, -1>>
    /\ o_conflict = "first"
    /\ o_ret' = <<ProcessMatch(OneRule, OneText, OneMatch, 0)>>
    /\ o_k' = o_k + 1
    /\ o_pc' = "done"
    /\ UNCHANGED <<o_expression, o_conflict, o_best>>
    /\ UNCHANGED <<normVars, manyVars, fesVars, urlVars>>

\* elif best_match is None or ...: best_match = match, length, category, transform
OneBetter ==
    /\ o_pc = "loop" /\ o_k < Len(Regexes)
    /\ OneMatch # <<-1, -1>>
    /\ o_conflict # "first"
    /\ ReplacesBest(o_conflict, o_best, OneMatch)
    /\ o_best' = <<[span |-> OneMatch, length |-> SpanLen(OneMatch), rule |-> OneRule]>>
    /\ o_k' = o_k + 1
    /\ UNCHANGED <<o_expression, o_conflict, o_ret, o_pc>>
    /\ UNCHANGED <<normVars, manyVars, fesVars, urlVars>>

\* a match that does not replace best_match: the loop goes on
OneKeep ==
    /\ o_pc = "loop" /\ o_k < Len(Regexes)
    /\ OneMatch # <<-1, -1>>
    /\ o_conflict # "first"
    /\ ~ReplacesBest(o_conflict, o_best, OneMatch)
    /\ o_k' = o_k + 1
    /\ UNCHANGED <<o_expression, o_conflict, o_best, o_ret, o_pc>>
    /\ UNCHANGED <<normVars, manyVars, fesVars, urlVars>>

\* if best_match is None: return (-1, -1), None, None
OneReturnNone ==
    /\ o_pc = "loop" /\ o_k = Len(Regexes)
    /\ o_best = <<>>
    /\ o_ret' = <<NoMatch>>
    /\ o_pc' = "done"
    /\ UNCHANGED <<o_expression, o_conflict, o_k, o_best>>
    /\ UNCHANGED <<normVars, manyVars, fesVars, urlVars>>

\* else: return self._process_match(category, transform, match, 0)
OneReturnBest ==
    /\ o_pc = "loop" /\ o_k = Len(Regexes)
    /\ o_best # <<>>
    /\ o_ret' = <<ProcessMatch(o_best[1].rule, OneText, o_best[1].span, 0)>>
    /\ o_pc' = "done"
    /\ UNCHANGED <<o_expression, o_conflict, o_k, o_best>>
    /\ UNCHANGED <<normVars, manyVars, fesVars, urlVars>>

(***************************************************************************)
(* DateNormalizer.normalize_many, a generator                              *)
(***************************************************************************)
\* expression[position:] of the lower-cased expression
ManySuffix == Slice(Lower(m_text), m_position, Len(m_text))

ManyRule == Regexes[m_k]

\* the next match of regex.finditer(expression[position:])
ManyMatch == SearchFrom(ManyRule.regex, ManySuffix, m_it)

\* yield self._process_match(category, transform, match, position);
\* end = max(end, match.end()).  The generator runs on when its consumer
\* has taken the previous value.
ManyYield ==
    /\ m_pc = "run" /\ m_k <= Len(Regexes) /\ m_pending = <<>>
    /\ ManyMatch # <<-1, -1>>
    /\ LET y == ProcessMatch(ManyRule, ManySuffix, ManyMatch, m_position)
       IN  /\ m_pending' = <<y>>
           /\ m_yields' = Append(m_yields, [span |-> y.span, category |-> y.category,
                                            result |-> y.result,
                                            position |-> m_position, k |-> m_k])
    /\ m_end' = Max(m_end, ManyMatch[2])
    /\ m_it' = ManyMatch[2]
    /\ UNCHANGED <<m_text, m_position, m_k, m_pc>>

\* finditer is exhausted: position += end, and the next rule starts with end = 0
ManyNextRule ==
    /\ m_pc = "run" /\ m_k <= Len(Regexes) /\ m_pending = <<>>
    /\ ManyMatch = <<-1, -1>>
    /\ m_position' = m_position + m_end
    /\ m_k' = m_k + 1
    /\ m_end' = 0
    /\ m_it' = 0
    /\ UNCHANGED <<m_text, m_pc, m_pending, m_yields>>

\* both loops are over: the generator is exhausted
ManyReturn ==
    /\ m_pc = "run" /\ m_k > Len(Regexes) /\ m_pending = <<>>
    /\ m_pc' = "done"
    /\ UNCHANGED <<m_text, m_position, m_k, m_end, m_it, m_pending, m_yields>>

\* a consumer iterating over the generator takes the yielded value
ManyConsume ==
    /\ m_pending # <<>>
    /\ m_pending' = <<>>
    /\ UNCHANGED <<m_text, m_position, m_k, m_end, m_it, m_pc, m_yields>>

(***************************************************************************)
(* normalize_numerical_fes                                                 *)
(***************************************************************************)
\* x[n] for a Python index n, negative ones counting from the end
Field(x, n) == IF n >= 0 THEN x[n + 1] ELSE x[Len(x) + n + 1]

\* tokens[a:b]
TokSlice(tokens, a, b) == Slice(tokens, a, b)

\* ' '.join(x[2] for x in tokens)
RECURSIVE JoinFrom(_, _)
JoinFrom(tokens, k) ==
    IF k > Len(tokens) THEN <<>>
    ELSE IF k = Len(tokens) THEN Field(tokens[k], 2)
    ELSE Field(tokens[k], 2) \o <<" ">> \o JoinFrom(tokens, k + 1)

Join(tokens) == JoinFrom(tokens, 1)

\* cursor = i = 0
\* while cursor != start and i < len(tokens):
\*     cursor += len(tokens[i][2]) + 1; i += 1
RECURSIVE FirstLoop(_, _, _, _)
FirstLoop(tokens, start, cursor, i) ==
    IF cursor # start /\ i < Len(tokens)
    THEN FirstLoop(tokens, start, cursor + Len(Field(tokens[i + 1], 2)) + 1, i + 1)
    ELSE i

FindFirst(tokens, start) == FirstLoop(tokens, start, 0, 0)

\* while ' '.join(x[2] for x in tokens[i:j]) != original and j < len(tokens): j += 1
RECURSIVE LastLoop(_, _, _, _)
LastLoop(tokens, original, i, j) ==
    IF Join(TokSlice(tokens, i, j)) # original /\ j < Len(tokens)
    THEN LastLoop(tokens, original, i, j + 1)
    ELSE j

\* j = i + 1, then the loop
FindLast(tokens, original, i) == LastLoop(tokens, original, i, i + 1)

\* A variant of SkipsAfterFirst without the check.
NeverSkipsAfterFirst(tokens, i) == FALSE

\* if i == len(tokens): continue
SkipsAfterFirst(tokens, i) == i = Len(tokens)

\* if j == len(tokens): continue
SkipsAfterLast(tokens, j) == j = Len(tokens)

\* tags = set(x[-1] for x in tokens[i:j] if x[-1] != 'O')
TagsOf(tokens, i, j) ==
    LET run == TokSlice(tokens, i, j)
    IN  { Field(run[k], -1) : k \in {n \in 1..Len(run) : Field(run[n], -1) # "O"} }

\* A variant of TagsDecidable without the assertion.
TagsAlwaysDecidable(tags) == TRUE

\* assert len(tags) in {0, 1}
TagsDecidable(tags) == Cardinality(tags) \in {0, 1}

\* tag = tags.pop() if tags else 'O'
PopTag(tags) == IF tags # {} THEN CHOOSE t \in tags : TRUE ELSE "O"

\* A variant of MergedToken that copies the field of the token after the
\* first one of the run.
MergedTokenNextPos(sentence_id, original, tokens, i, tag) ==
    <<sentence_id, "-", original, "ENT", original, Field(tokens[i + 2], -2), tag>>

\* [sentence_id, '-', original, 'ENT', original, tokens[0][-2], tag]
MergedToken(sentence_id, original, tokens, i, tag) ==
    <<sentence_id, "-", original, "ENT", original, Field(tokens[1], -2), tag>>

\* A variant of Replace that resumes one token too late.
ReplaceOffByOne(tokens, i, j, merged) ==
    TokSlice(tokens, 0, i) \o <<merged>> \o TokSlice(tokens, j + 1, Len(tokens))

\* tokens[:i] + [merged] + tokens[j:]
Replace(tokens, i, j, merged) ==
    TokSlice(tokens, 0, i) \o <<merged>> \o TokSlice(tokens, j, Len(tokens))

\* the match the for loop is handling: (start, end), and sentence[start:end]
FesSpan == m_pending[1].span

FesOriginal == Slice(f_sentence, FesSpan[1], FesSpan[2])

FesI == FindFirst(f_tokens, FesSpan[1])

FesJ == FindLast(f_tokens, FesOriginal, FesI)

FesTags == TagsOf(f_tokens, FesI, FesJ)

Handled(kind, i, j) ==
    [kind |-> kind, before |-> f_tokens, span |-> FesSpan, i |-> i, j |-> j]

\* the first `continue`: no token starts at `start`
FesSkipFirst ==
    /\ f_pc = "loop" /\ m_pending # <<>>
    /\ SkipsAfterFirst(f_tokens, FesI)
    /\ m_pending' = <<>>
    /\ f_last' = Handled("skip_first", FesI, FesI)
    /\ UNCHANGED <<f_sid, f_input, f_tokens, f_sentence, f_pc, f_run>>
    /\ UNCHANGED <<m_text, m_position, m_k, m_end, m_it, m_pc, m_yields>>
    /\ UNCHANGED <<normVars, oneVars, urlVars>>

\* the second `continue`: j ran to len(tokens)
FesSkipLast ==
    /\ f_pc = "loop" /\ m_pending # <<>>
    /\ ~SkipsAfterFirst(f_tokens, FesI)
    /\ SkipsAfterLast(f_tokens, FesJ)
    /\ m_pending' = <<>>
    /\ f_last' = Handled("skip_last", FesI, FesJ)
    /\ UNCHANGED <<f_sid, f_input, f_tokens, f_sentence, f_pc, f_run>>
    /\ UNCHANGED <<m_text, m_position, m_k, m_end, m_it, m_pc, m_yields>>
    /\ UNCHANGED <<normVars, oneVars, urlVars>>

\* the assertion on the tags fails: AssertionError leaves the function, and
\* the generator is never resumed
FesCannotDecide ==
    /\ f_pc = "loop" /\ m_pending # <<>>
    /\ ~SkipsAfterFirst(f_tokens, FesI)
    /\ ~SkipsAfterLast(f_tokens, FesJ)
    /\ ~TagsDecidable(FesTags)
    /\ f_pc' = "error"
    /\ f_last' = Handled("cannot_decide", FesI, FesJ)
    /\ UNCHANGED <<f_sid, f_input, f_tokens, f_sentence, f_run>>
    /\ UNCHANGED manyVars
    /\ UNCHANGED <<normVars, oneVars, urlVars>>

\* the old tokens are replaced by the new one, and the sentence is rebuilt
\* to be compared with the original (the second assertion)
FesMerge ==
    /\ f_pc = "loop" /\ m_pending # <<>>
    /\ ~SkipsAfterFirst(f_tokens, FesI)
    /\ ~SkipsAfterLast(f_tokens, FesJ)
    /\ TagsDecidable(FesTags)
    /\ f_tokens' = Replace(f_tokens, FesI, FesJ,
                           MergedToken(f_sid, FesOriginal, f_tokens, FesI, PopTag(FesTags)))
    /\ f_pc' = IF Join(f_tokens') = f_sentence THEN "loop" ELSE "error"
    /\ m_pending' = IF Join(f_tokens') = f_sentence THEN <<>> ELSE m_pending
    /\ f_last' = Handled("merge", FesI, FesJ)
    /\ UNCHANGED <<f_sid, f_input, f_sentence, f_run>>
    /\ UNCHANGED <<m_text, m_position, m_k, m_end, m_it, m_pc, m_yields>>
    /\ UNCHANGED <<normVars, oneVars, urlVars>>

\* the generator is exhausted: return tokens
FesReturn ==
    /\ f_pc = "loop" /\ m_pc = "done"
    /\ f_pc' = "done"
    /\ UNCHANGED <<f_sid, f_input, f_tokens, f_sentence, f_run, f_last>>
    /\ UNCHANGED manyVars
    /\ UNCHANGED <<normVars, oneVars, urlVars>>

\* normalize_numerical_fes(normalizer, sentence_id, tokens) is entered:
\* sentence is built and normalize_many(sentence) is created
FesEnter(sentence_id, tokens) ==
    /\ f_sid = sentence_id
    /\ f_input = tokens
    /\ f_tokens = tokens
    /\ f_sentence = Join(tokens)
    /\ f_pc = "loop"
    /\ f_last = NoLast
    /\ m_text = Join(tokens)
    /\ m_position = 0 /\ m_k = 1 /\ m_end = 0 /\ m_it = 0
    /\ m_pc = "run" /\ m_pending = <<>> /\ m_yields = <<>>

\* the caller passes the returned tokens to a second call, with the same
\* normalizer and sentence id
FesCallAgain ==
    /\ f_pc = "done" /\ f_run = 1
    /\ f_run' = 2
    /\ f_sid' = f_sid
    /\ f_input' = f_tokens
    /\ f_tokens' = f_tokens
    /\ f_sentence' = Join(f_tokens)
    /\ f_pc' = "loop"
    /\ f_last' = NoLast
    /\ m_text' = Join(f_tokens)
    /\ m_position' = 0 /\ m_k' = 1 /\ m_end' = 0 /\ m_it' = 0
    /\ m_pc' = "run" /\ m_pending' = <<>> /\ m_yields' = <<>>
    /\ UNCHANGED <<normVars, oneVars, urlVars>>

\* The token lists of the model: at most MaxTokens tokens of seven fields,
\* with a surface text (field 2) and an IOB tag (the last field) each; the
\* part-of-speech field of every token is its own.
Words == { <<"1">>, <<"1", "A">> }

Tags == {"O", "B-T", "B-D"}

PosTags == <<"NNP", "VBD", "CD", "IN", "NN", "DT", "JJ">>

InputTokens(sentence_id) ==
    UNION { { [k \in 1..n |-> <<sentence_id, "_", w[k], "W", w[k], PosTags[k], t[k]>>]
              : w \in [1..n -> Words], t \in [1..n -> Tags] }
            : n \in 0..MaxTokens }

(***************************************************************************)
(* map_url_to_wid (strephit/commons/serialize.py)                          *)
(***************************************************************************)
\* row[:-1]
DropLast(row) == Slice(row, 0, Len(row) - 1)

\* text.split('\t'), from item k on, with the field read so far
RECURSIVE SplitFrom(_, _, _)
SplitFrom(text, k, field) ==
    IF k > Len(text) THEN <<field>>
    ELSE IF text[k] = "\t" THEN <<field>> \o SplitFrom(text, k + 1, <<>>)
    ELSE SplitFrom(text, k + 1, Append(field, text[k]))

\* parts = row[:-1].split('\t')
Parts(row) == SplitFrom(DropLast(row), 1, <<>>)

\* wid, url = parts[0], parts[-1]
RowWid(row) == Field(Parts(row), 0)

RowUrl(row) == Field(Parts(row), -1)

\* a dict as the set of its items: keys, d[key], d.pop(key), d[key] = value
Keys(d) == { item[1] : item \in d }

Get(d, key) == (CHOOSE item \in d : item[1] = key)[2]

Pop(d, key) == { item \in d : item[1] # key }

Put(d, key, value) == Pop(d, key) \cup {<<key, value>>}

\* if url in url_to_wid and url_to_wid[url] != wid
Clashes(d, url, wid) == IF url \in Keys(d) THEN Get(d, url) # wid ELSE FALSE

\* A variant of Admitted that forgets the banned urls.
AdmittedAlways(banned, url) == TRUE

\* elif url not in banned_urls
Admitted(banned, url) == url \notin banned

UrlRow == u_rows[u_n + 1]

\* the url is known with another subject: url_to_wid.pop(url); banned_urls.add(url)
UrlBan ==
    /\ u_pc = "loop" /\ u_n < Len(u_rows)
    /\ Clashes(url_to_wid, RowUrl(UrlRow), RowWid(UrlRow))
    /\ url_to_wid' = Pop(url_to_wid, RowUrl(UrlRow))
    /\ banned_urls' = banned_urls \cup {RowUrl(UrlRow)}
    /\ u_n' = u_n + 1
    /\ UNCHANGED <<u_rows, u_pc>>

\* url_to_wid[parts[-1]] = parts[0]
UrlSet ==
    /\ u_pc = "loop" /\ u_n < Len(u_rows)
    /\ ~Clashes(url_to_wid, RowUrl(UrlRow), RowWid(UrlRow))
    /\ Admitted(banned_urls, RowUrl(UrlRow))
    /\ url_to_wid' = Put(url_to_wid, Field(Parts(UrlRow), -1), Field(Parts(UrlRow), 0))
    /\ u_n' = u_n + 1
    /\ UNCHANGED <<u_rows, banned_urls, u_pc>>

\* neither branch: a row of a banned url
UrlPass ==
    /\ u_pc = "loop" /\ u_n < Len(u_rows)
    /\ ~Clashes(url_to_wid, RowUrl(UrlRow), RowWid(UrlRow))
    /\ ~Admitted(banned_urls, RowUrl(UrlRow))
    /\ u_n' = u_n + 1
    /\ UNCHANGED <<u_rows, url_to_wid, banned_urls, u_pc>>

\* return url_to_wid
UrlReturn ==
    /\ u_pc = "loop" /\ u_n = Len(u_rows)
    /\ u_pc' = "done"
    /\ UNCHANGED <<u_rows, u_n, url_to_wid, banned_urls>>

\* The lines of the model: a subject id, for some lines a property, and a
\* url, separated by tabs and ended by a newline.
RowWids == { <<"Q">>, <<"R">> }

RowUrls == { <<"u">>, <<"u", "v">> }

RowLines ==
    { w \o <<"\t">> \o m \o u \o <<"\n">> :
        w \in RowWids, m \in { <<>>, <<"P", "\t">> }, u \in RowUrls }

\* The files of the model, as iterating them yields their lines: at most
\* MaxRows lines, the last of which may lack its newline.
RowFiles ==
    LET whole == UNION { [1..n -> RowLines] : n \in 0..MaxRows }
    IN  whole \cup { [rows EXCEPT ![Len(rows)] = DropLast(rows[Len(rows)])]
                     : rows \in { r \in whole : Len(r) > 0 } }

(***************************************************************************)
(* Specifications.                                                         *)
(***************************************************************************)
vars == <<normVars, oneVars, manyVars, fesVars, urlVars>>

\* normalize_one called on a text with a conflict policy
InitOne ==
    /\ InitNormalizer
    /\ o_expression \in TextsUpTo(MaxLen)
    /\ o_conflict \in Conflicts
    /\ o_k = 0 /\ o_best = <<>> /\ o_ret = <<>> /\ o_pc = "loop"
    /\ ManyOff
    /\ FesOff
    /\ UrlOff

NextOne ==
    \/ OneNoMatch
    \/ OneFirst
    \/ OneBetter
    \/ OneKeep
    \/ OneReturnNone
    \/ OneReturnBest

SpecOne == InitOne /\ [][NextOne]_vars

\* normalize_many called on a text and iterated to exhaustion
InitMany ==
    /\ InitNormalizer
    /\ OneOff
    /\ m_text \in TextsUpTo(MaxLen)
    /\ m_position = 0 /\ m_k = 1 /\ m_end = 0 /\ m_it = 0
    /\ m_pc = "run" /\ m_pending = <<>> /\ m_yields = <<>>
    /\ FesOff
    /\ UrlOff

NextMany ==
    \/ ManyYield /\ UNCHANGED <<normVars, oneVars, fesVars, urlVars>>
    \/ ManyNextRule /\ UNCHANGED <<normVars, oneVars, fesVars, urlVars>>
    \/ ManyReturn /\ UNCHANGED <<normVars, oneVars, fesVars, urlVars>>
    \/ ManyConsume /\ UNCHANGED <<normVars, oneVars, fesVars, urlVars>>

SpecMany == InitMany /\ [][NextMany]_vars

\* normalize_numerical_fes called on a token list, and once more on its result
InitFes ==
    /\ InitNormalizer
    /\ OneOff
    /\ UrlOff
    /\ f_run = 1
    /\ \E tokens \in InputTokens("s1") : FesEnter("s1", tokens)

NextFes ==
    \/ ManyYield /\ UNCHANGED <<normVars, oneVars, fesVars, urlVars>>
    \/ ManyNextRule /\ UNCHANGED <<normVars, oneVars, fesVars, urlVars>>
    \/ ManyReturn /\ UNCHANGED <<normVars, oneVars, fesVars, urlVars>>
    \/ FesSkipFirst
    \/ FesSkipLast
    \/ FesCannotDecide
    \/ FesMerge
    \/ FesReturn
    \/ FesCallAgain

SpecFes == InitFes /\ [][NextFes]_vars

\* a process that constructs normalizers and evaluates their transforms
InitCtor ==
    /\ specs = <<>> /\ order = <<>>
    /\ builtins = <<>> /\ instances = <<>> /\ c_seen = <<>>
    /\ OneOff
    /\ ManyOff
    /\ FesOff
    /\ UrlOff

NextCtor ==
    \/ \E language \in Languages :
          Construct(language) /\ UNCHANGED <<oneVars, manyVars, fesVars, urlVars>>
    \/ \E language \in Languages :
          ConstructFails(language) /\ UNCHANGED <<oneVars, manyVars, fesVars, urlVars>>
    \/ \E k \in 1..Len(instances) :
          CallMetaFunc(k) /\ UNCHANGED <<oneVars, manyVars, fesVars, urlVars>>

SpecCtor == InitCtor /\ [][NextCtor]_vars

\* map_url_to_wid called on an open file
InitUrl ==
    /\ specs = <<>> /\ order = <<>>
    /\ builtins = <<>> /\ instances = <<>> /\ c_seen = <<>>
    /\ OneOff
    /\ ManyOff
    /\ FesOff
    /\ u_rows \in RowFiles
    /\ u_n = 0 /\ url_to_wid = {} /\ banned_urls = {} /\ u_pc = "loop"

NextUrl ==
    \/ UrlBan /\ UNCHANGED <<normVars, oneVars, manyVars, fesVars>>
    \/ UrlSet /\ UNCHANGED <<normVars, oneVars, manyVars, fesVars>>
    \/ UrlPass /\ UNCHANGED <<normVars, oneVars, manyVars, fesVars>>
    \/ UrlReturn /\ UNCHANGED <<normVars, oneVars, manyVars, fesVars>>

SpecUrl == InitUrl /\ [][NextUrl]_vars

(***************************************************************************)
(* Properties.                                                             *)
(***************************************************************************)

\* C1: in normalize_numerical_fes the space-join of the surface texts of
\* the current tokens equals the sentence built from the input tokens in
\* every state of the loop, so after each merge and at return, and the
\* assertion that rebuilds the sentence after a merge never fails.
C1_SentenceRebuilt ==
    f_pc # "off" =>
        /\ f_sentence = Join(f_input)
        /\ Join(f_tokens) = f_sentence
        /\ f_last.kind = "merge" => f_pc # "error"

\* a call has returned after merging several tokens into one
C1_Witness ==
    /\ f_pc = "done" /\ f_run = 1
    /\ Len(f_tokens) < Len(f_input)

\* C2, the yielded spans: start offsets are non-decreasing in emission
\* order, no span starts before the cursor, no span overlaps the span an
\* earlier rule yielded, and each span is cursor + the offsets in the
\* unconsumed suffix, where the rule's pattern matches the lower-cased text.
C2_Yields ==
    /\ \A a, b \in 1..Len(m_yields) :
          a < b =>
            /\ m_yields[a].span[1] <= m_yields[b].span[1]
            /\ m_yields[a].k # m_yields[b].k => m_yields[a].span[2] <= m_yields[b].span[1]
    /\ \A a \in 1..Len(m_yields) :
          LET y == m_yields[a]
          IN  /\ y.position <= y.span[1]
              /\ y.span[2] <= Len(m_text)
              /\ MatchEnd(Regexes[y.k].regex, Lower(m_text), y.span[1], 1) = y.span[2]
              /\ MatchEnd(Regexes[y.k].regex,
                          Slice(Lower(m_text), y.position, Len(m_text)),
                          y.span[1] - y.position, 1) = y.span[2] - y.position
              /\ y.position <= m_position

\* C2: during normalize_many the cursor never decreases, and the yielded
\* spans are ordered, unclaimed and absolute (C2_Yields).
C2_CursorAndSpans == [](C2_Yields) /\ [][m_position' >= m_position]_vars

\* two rules have yielded, the later one after the cursor has moved
C2_Witness ==
    \E a, b \in 1..Len(m_yields) :
        /\ a < b
        /\ m_yields[a].k # m_yields[b].k
        /\ m_yields[b].position > 0
        /\ m_yields[b].span[1] > m_yields[b].position

(***************************************************************************)
(* normalize_one, stated without its loop.                                 *)
(***************************************************************************)
\* the categories of the rule document in the order they are declared
DeclaredOrder == [k \in 1..Len(specs) |-> k]

Declared == ScanList(specs, DeclaredOrder)

\* the offsets at which a pattern matches a text
MatchStarts(regex, text) == { p \in 0..Len(text) : MatchEnd(regex, text, p, 1) >= 0 }

Least(S) == CHOOSE x \in S : \A y \in S : x <= y

\* the leftmost match of a pattern that matches
Leftmost(regex, text) ==
    LET p == Least(MatchStarts(regex, text)) IN <<p, MatchEnd(regex, text, p, 1)>>

\* the rules of a scan list that match somewhere in the lower-cased text
Hits(list, text) == { k \in 1..Len(list) : MatchStarts(list[k].regex, Lower(text)) # {} }

\* what normalize_one returns for rule k of a scan list
Outcome(list, text, k) ==
    LET span == Leftmost(list[k].regex, Lower(text))
    IN  [span |-> span,
         category |-> list[k].category,
         result |-> <<list[k].transform, Lower(Slice(text, span[1], span[2]))>>]

\* the result of scanning a list in order and taking the first hit
FirstHit(list, text) ==
    IF Hits(list, text) = {} THEN NoMatch ELSE Outcome(list, text, Least(Hits(list, text)))

\* the rules visited when the scan stops at the first hit
VisitedUntilFirstHit(list, text) ==
    IF Hits(list, text) = {} THEN Len(list) ELSE Least(Hits(list, text))

\* C3: with conflict 'first', normalize_one returns the span (in offsets of
\* T), category and result of the first rule that matches lower-cased T,
\* scanning the categories in declared order and the rules of a category in
\* declared order, and it visits no later rule.
C3_FirstInDeclaredOrder ==
    (o_pc = "done" /\ o_conflict = "first") =>
        /\ o_ret = <<FirstHit(Declared, o_expression)>>
        /\ o_k = VisitedUntilFirstHit(Declared, o_expression)

\* the same with the categories in the order the dict self.regexes iterates
FirstInIterationOrder ==
    (o_pc = "done" /\ o_conflict = "first") =>
        /\ o_ret = <<FirstHit(Regexes, o_expression)>>
        /\ o_k = VisitedUntilFirstHit(Regexes, o_expression)

\* the length of the leftmost match of rule k
HitLen(list, text, k) == SpanLen(Leftmost(list[k].regex, Lower(text)))

\* the hit that wins under 'longest' or 'shortest': no hit is strictly
\* better, and no earlier hit is as good
Winner(list, text, conflict) ==
    CHOOSE k \in Hits(list, text) :
        \A h \in Hits(list, text) :
            IF conflict = "longest"
            THEN /\ HitLen(list, text, h) <= HitLen(list, text, k)
                 /\ HitLen(list, text, h) = HitLen(list, text, k) => k <= h
            ELSE /\ HitLen(list, text, h) >= HitLen(list, text, k)
                 /\ HitLen(list, text, h) = HitLen(list, text, k) => k <= h

\* C4: with conflict 'longest' ('shortest') normalize_one visits every rule
\* and returns the hit of maximal (minimal) span length, the earliest such
\* hit in scan order; with no hit, under any policy, it returns
\* ((-1, -1), None, None).
C4_BestOrSentinel ==
    o_pc = "done" =>
        /\ Hits(Regexes, o_expression) = {} =>
              o_ret = <<[span |-> <<-1, -1>>, category |-> None, result |-> <<>>]>>
        /\ (o_conflict # "first" /\ Hits(Regexes, o_expression) # {}) =>
              o_ret = <<Outcome(Regexes, o_expression,
                                Winner(Regexes, o_expression, o_conflict))>>
        /\ o_conflict # "first" => o_k = Len(Regexes)

\* two rules tie for the best length and the earlier one is returned
C4_Witness ==
    /\ o_pc = "done" /\ o_conflict # "first"
    /\ \E a, b \in Hits(Regexes, o_expression) :
          /\ a < b
          /\ a = Winner(Regexes, o_expression, o_conflict)
          /\ HitLen(Regexes, o_expression, a) = HitLen(Regexes, o_expression, b)
          /\ o_ret[1].category # Regexes[b].category
    /\ \E c \in Hits(Regexes, o_expression) :
          HitLen(Regexes, o_expression, c)
              # HitLen(Regexes, o_expression, Winner(Regexes, o_expression, o_conflict))

(***************************************************************************)
(* normalize_numerical_fes, stated without its loops.                      *)
(***************************************************************************)
\* the offset in the sentence at which token i (from 0) starts
StartOffset(tokens, i) ==
    IF i = 0 THEN 0 ELSE Len(Join(TokSlice(tokens, 0, i))) + 1

\* the runs tokens[i:j], 0 <= i < j <= len(tokens), that start at the start
\* of a span and join to the text of the span
AlignedRuns(tokens, sentence, span) ==
    { r \in (0..(Len(tokens) - 1)) \X (1..Len(tokens)) :
        /\ r[1] < r[2]
        /\ StartOffset(tokens, r[1]) = span[1]
        /\ Join(TokSlice(tokens, r[1], r[2])) = Slice(sentence, span[1], span[2]) }

\* the tags other than 'O' of the tokens the last match covered
LastTags ==
    { Field(f_last.before[k], -1) : k \in (f_last.i + 1)..f_last.j } \ {"O"}

C5_Tag ==
    f_last.kind \in {"merge", "cannot_decide"} =>
        /\ LastTags = {} =>
              f_last.kind = "merge" /\ Field(f_tokens[f_last.i + 1], -1) = "O"
        /\ Cardinality(LastTags) = 1 =>
              f_last.kind = "merge" /\ Field(f_tokens[f_last.i + 1], -1) \in LastTags
        /\ Cardinality(LastTags) >= 2 =>
              /\ f_last.kind = "cannot_decide"
              /\ f_pc = "error"
              /\ f_tokens = f_last.before

\* C5: the tag of a merged token is 'O' when no covered token has another
\* tag, the one other tag when there is exactly one, and with two or more
\* distinct other tags the call fails with an AssertionError: no tag is
\* chosen, and the call never returns a token list.
C5_TagResolved == [](C5_Tag) /\ [][f_pc = "error" => f_pc' = "error"]_vars

\* a call has failed on a run of tokens carrying two distinct tags
C5_Witness ==
    /\ f_pc = "error"
    /\ f_last.kind = "cannot_decide"
    /\ Cardinality(LastTags) = 2

\* C6: a match whose start is no token's start, or for which no run of
\* tokens from there joins to the matched text, is skipped without error:
\* the tokens are as before the match, and the loop goes on.
C6_UnalignedSkipped ==
    (/\ f_last.kind # "none"
     /\ AlignedRuns(f_last.before, f_sentence, f_last.span) = {}) =>
        /\ f_last.kind \in {"skip_first", "skip_last"}
        /\ f_tokens = f_last.before
        /\ f_pc \in {"loop", "done"}

\* a match that starts inside a token was skipped, after an earlier merge,
\* and the call went on to return
C6_Witness ==
    /\ f_pc = "done" /\ f_run = 1
    /\ f_last.kind = "skip_first"
    /\ AlignedRuns(f_last.before, f_sentence, f_last.span) = {}
    /\ f_tokens # f_input

\* C7: the second call, on the tokens R the first call returned, does not
\* fail and returns R.
C7_Idempotent ==
    f_run = 2 =>
        /\ f_pc # "error"
        /\ f_pc = "done" => f_tokens = f_input

\* the second call has returned, on a result that holds merged tokens
C7_Witness ==
    /\ f_run = 2 /\ f_pc = "done"
    /\ \E k \in 1..Len(f_input) : Field(f_input[k], 3) = "ENT"
    /\ \E k \in 1..Len(f_input) : Field(f_input[k], 3) # "ENT"

\* C8: a match that starts at the start of token i and whose text is the
\* space-join of a run tokens[i:j], j <= len(tokens), is not skipped.
C8_AlignedRunMerged ==
    (/\ f_last.kind # "none"
     /\ AlignedRuns(f_last.before, f_sentence, f_last.span) # {}) =>
        f_last.kind \notin {"skip_first", "skip_last"}

\* C9: a merge replaces tokens[i:j] by the one token [sentence id, '-',
\* text, 'ENT', text, part-of-speech of tokens[i], tag] and leaves the
\* tokens before i and from j on as they were.
C9_MergedToken ==
    f_last.kind = "merge" =>
        LET b == f_last.before
            original == Slice(f_sentence, f_last.span[1], f_last.span[2])
            tag == Field(f_tokens[f_last.i + 1], -1)
        IN  f_tokens = TokSlice(b, 0, f_last.i)
                       \o << <<f_sid, "-", original, "ENT", original,
                               Field(b[f_last.i + 1], -2), tag>> >>
                       \o TokSlice(b, f_last.j, Len(b))

\* the same with the part-of-speech of tokens[0]
MergedTokenWithFirstPos ==
    f_last.kind = "merge" =>
        LET b == f_last.before
            original == Slice(f_sentence, f_last.span[1], f_last.span[2])
            tag == Field(f_tokens[f_last.i + 1], -1)
        IN  f_tokens = TokSlice(b, 0, f_last.i)
                       \o << <<f_sid, "-", original, "ENT", original,
                               Field(b[1], -2), tag>> >>
                       \o TokSlice(b, f_last.j, Len(b))

(***************************************************************************)
(* Construction.                                                           *)
(***************************************************************************)
\* C10: after any sequence of constructions, what each instance's meta
\* functions and transforms see as meta_vars is the instance's own mapping,
\* and what the last call of a meta function saw was its instance's own.
C10_OwnMetaVars ==
    /\ \A k \in 1..Len(instances) : VisibleMetaVars(k) = <<instances[k].meta_vars>>
    /\ \A n \in 1..Len(c_seen) :
          c_seen[n].inst > 0 => c_seen[n].meta_vars = <<instances[c_seen[n].inst].meta_vars>>

(***************************************************************************)
(* map_url_to_wid, stated without its loop.                                *)
(***************************************************************************)
\* the rows processed so far that carry a url (as the row is split)
RowsWith(url) == { k \in 1..u_n : RowUrl(u_rows[k]) = url }

\* C11: after any number of rows, the map holds url -> w exactly when some
\* row processed has that url and every row processed with that url has
\* the subject id w; so a url seen with two subject ids is absent whatever
\* rows with it follow.
C11_UrlMapped ==
    u_pc # "off" =>
        \A url \in Keys(url_to_wid) \cup { RowUrl(u_rows[k]) : k \in 1..u_n } :
        \A w \in { item[2] : item \in url_to_wid } \cup { RowWid(u_rows[k]) : k \in 1..u_n } :
            <<url, w>> \in url_to_wid
                <=> /\ RowsWith(url) # {}
                    /\ \A k \in RowsWith(url) : RowWid(u_rows[k]) = w

\* the map is returned after three rows of one url, the first two with
\* different subject ids
C11_Witness ==
    /\ u_pc = "done" /\ u_n >= 3
    /\ RowUrl(u_rows[1]) = RowUrl(u_rows[2])
    /\ RowUrl(u_rows[2]) = RowUrl(u_rows[3])
    /\ RowWid(u_rows[1]) # RowWid(u_rows[2])
    /\ RowUrl(u_rows[1]) \notin Keys(url_to_wid)

=============================================================================
